---------------------------- MODULE Spec2Model ----------------------------
(***************************************************************************)
(* A model of the cleanenv binding engine: readStructMetadata              *)
(* (introspection), parseValue/parseSlice/parseMap (coercion),             *)
(* readEnvVars, readFlagVars, finalize, and the two entry points ReadEnv   *)
(* and ReadConfig.                                                         *)
(*                                                                         *)
(* Go strings are TLA+ strings (TLC evaluates Len, \o and SubSeq on        *)
(* them).  A Go (value, ok) pair or *string is a record [ok, v].           *)
(* A reflect.Value is a tagged record [k |-> kind, ...]; a reflect.Type    *)
(* is a record [kind, bits, pkg, name, elem, key, setter].                 *)
(***************************************************************************)
EXTENDS Integers, Sequences, FiniteSets, TLC

(***************************************************************************)
(* Program constants (cleanenv.go).                                        *)
(***************************************************************************)
DefaultSeparator == ","

(***************************************************************************)
(* Strings: the parts of package strings the code calls.                   *)
(***************************************************************************)
Ch(s, i) == SubSeq(s, i, i)

From(s, i) == SubSeq(s, i, Len(s))

LowerLetters == <<"a","b","c","d","e","f","g","h","i","j","k","l","m",
                  "n","o","p","q","r","s","t","u","v","w","x","y","z">>

UpperLetters == <<"A","B","C","D","E","F","G","H","I","J","K","L","M",
                  "N","O","P","Q","R","S","T","U","V","W","X","Y","Z">>

UpperCh(c) ==
    IF \E i \in 1..26 : LowerLetters[i] = c
    THEN UpperLetters[CHOOSE i \in 1..26 : LowerLetters[i] = c]
    ELSE c

LowerCh(c) ==
    IF \E i \in 1..26 : UpperLetters[i] = c
    THEN LowerLetters[CHOOSE i \in 1..26 : UpperLetters[i] = c]
    ELSE c

RECURSIVE ToUpper(_)
ToUpper(s) == IF s = "" THEN "" ELSE UpperCh(Ch(s, 1)) \o ToUpper(From(s, 2))

RECURSIVE ToLower(_)
ToLower(s) == IF s = "" THEN "" ELSE LowerCh(Ch(s, 1)) \o ToLower(From(s, 2))

HasPrefix(s, p) == Len(s) >= Len(p) /\ SubSeq(s, 1, Len(p)) = p

HasSuffix(s, p) == Len(s) >= Len(p) /\ SubSeq(s, Len(s) - Len(p) + 1, Len(s)) = p

\* strings.Index: the 1-based position of the first occurrence of sep in s, 0 if none
Index(s, sep) ==
    LET hits == {i \in 1..(Len(s) - Len(sep) + 1) : SubSeq(s, i, i + Len(sep) - 1) = sep}
    IN  IF hits = {} THEN 0 ELSE CHOOSE i \in hits : \A j \in hits : i <= j

RECURSIVE Explode(_)
Explode(s) == IF s = "" THEN <<>> ELSE <<Ch(s, 1)>> \o Explode(From(s, 2))

\* strings.Split(s, sep): all the pieces, empty ones included; sep = "" explodes s
RECURSIVE Split(_, _)
Split(s, sep) ==
    IF sep = "" THEN Explode(s)
    ELSE LET i == Index(s, sep)
         IN  IF i = 0 THEN <<s>>
             ELSE <<SubSeq(s, 1, i - 1)>> \o Split(From(s, i + Len(sep)), sep)

\* strings.SplitN(s, sep, 2) for a non-empty sep
SplitN2(s, sep) ==
    LET i == Index(s, sep)
    IN  IF i = 0 THEN <<s>> ELSE <<SubSeq(s, 1, i - 1), From(s, i + Len(sep))>>

RECURSIVE ReplaceAll(_, _, _)
ReplaceAll(s, old, new) ==
    IF s = "" THEN ""
    ELSE (IF Ch(s, 1) = old THEN new ELSE Ch(s, 1)) \o ReplaceAll(From(s, 2), old, new)

IsSpace(c) == c \in {" ", "\t", "\n", "\r"}

RECURSIVE TrimLeft(_)
TrimLeft(s) == IF s # "" /\ IsSpace(Ch(s, 1)) THEN TrimLeft(From(s, 2)) ELSE s

RECURSIVE TrimRight(_)
TrimRight(s) ==
    IF s # "" /\ IsSpace(Ch(s, Len(s))) THEN TrimRight(SubSeq(s, 1, Len(s) - 1)) ELSE s

TrimSpace(s) == TrimRight(TrimLeft(s))


(***************************************************************************)
(* reflect.Type.  elem and key name the element and key types of a slice   *)
(* or map and are resolved by TypeNamed.  setter says that the type (or a  *)
(* pointer to it) implements Setter.  The schemas draw their field types   *)
(* from these; float and time.Duration fields are not among them.          *)
(***************************************************************************)
IntKinds == {"int", "int8", "int16", "int32", "int64"}

UintKinds == {"uint", "uint8", "uint16", "uint32", "uint64"}

Ty(kind, bits, pkg, name, elem, key, setter) ==
    [kind |-> kind, bits |-> bits, pkg |-> pkg, name |-> name,
     elem |-> elem, key |-> key, setter |-> setter]

TypeNamed(n) ==
    CASE n = "int"            -> Ty("int", 64, "", "int", "", "", FALSE)
      [] n = "int8"           -> Ty("int8", 8, "", "int8", "", "", FALSE)
      [] n = "uint8"          -> Ty("uint8", 8, "", "uint8", "", "", FALSE)
      [] n = "bool"           -> Ty("bool", 0, "", "bool", "", "", FALSE)
      [] n = "string"         -> Ty("string", 0, "", "string", "", "", FALSE)
      [] n = "complex128"     -> Ty("complex128", 128, "", "complex128", "", "", FALSE)
      [] n = "time.Time"      -> Ty("struct", 0, "time", "Time", "", "", FALSE)
      [] n = "Inner"          -> Ty("struct", 0, "main", "Inner", "", "", FALSE)
      [] n = "MyField"        -> Ty("string", 0, "main", "MyField", "", "", TRUE)
      [] n = "[]int"          -> Ty("slice", 0, "", "", "int", "", FALSE)
      [] n = "[]uint8"        -> Ty("slice", 0, "", "", "uint8", "", FALSE)
      [] n = "[]Inner"        -> Ty("slice", 0, "", "", "Inner", "", FALSE)
      [] n = "[]complex128"   -> Ty("slice", 0, "", "", "complex128", "", FALSE)
      [] n = "map[string]int" -> Ty("map", 0, "", "", "int", "string", FALSE)
      [] n = "map[string]Inner" -> Ty("map", 0, "", "", "Inner", "string", FALSE)

(***************************************************************************)
(* reflect.Value, by kind.  A struct value that is not a time.Time is the  *)
(* tuple of its fields' values; a time.Time is the instant it denotes (in  *)
(* UTC), and is the zero Time at 0001-01-01T00:00:00Z.                     *)
(***************************************************************************)
IntV(n) == [k |-> "int", n |-> n]

UintV(u) == [k |-> "uint", u |-> u]

BoolV(b) == [k |-> "bool", b |-> b]

StrV(s) == [k |-> "string", s |-> s]

CplxV(re, im) == [k |-> "complex", re |-> re, im |-> im]

StructV(fields) == [k |-> "struct", fields |-> fields]

TimeV(y, mo, d, h, mi, sec) ==
    [k |-> "time", y |-> y, mo |-> mo, d |-> d, h |-> h, mi |-> mi, sec |-> sec]

SliceV(isNil, elems) == [k |-> "slice", isNil |-> isNil, elems |-> elems]

MapV(isNil, m) == [k |-> "map", isNil |-> isNil, m |-> m]

\* the zero value of a type (reflect.Zero, reflect.New(t).Elem(), a fresh struct field)
Zero(t) ==
    CASE t.kind \in IntKinds -> IntV(0)
      [] t.kind \in UintKinds -> UintV(0)
      [] t.kind = "bool" -> BoolV(FALSE)
      [] t.kind = "string" -> StrV("")
      [] t.kind = "complex128" -> CplxV(0, 0)
      [] t.kind = "struct" /\ t.pkg = "time" -> TimeV(1, 1, 1, 0, 0, 0)
      [] t.kind = "struct" /\ t.pkg # "time" -> StructV(<<IntV(0)>>)
      [] t.kind = "slice" -> SliceV(TRUE, <<>>)
      [] t.kind = "map" -> MapV(TRUE, <<>>)

RECURSIVE isZero(_)
isZero(v) ==
    CASE v.k = "bool" -> ~v.b
      [] v.k = "int" -> v.n = 0
      [] v.k = "uint" -> v.u = 0
      [] v.k = "complex" -> v.re = 0 /\ v.im = 0
      [] v.k \in {"map", "slice"} -> v.isNil
      [] v.k = "string" -> Len(v.s) = 0
      [] v.k = "struct" -> \A i \in 1..Len(v.fields) : isZero(v.fields[i])
      [] v.k = "time" -> v = TimeV(1, 1, 1, 0, 0, 0)

(***************************************************************************)
(* strconv and time: the literal grammars parseValue relies on.  A result  *)
(* is [err, ...] with err = "" for a nil error.  Literals with digit       *)
(* separators ("1_000") and time zones other than Z are not among the raw  *)
(* values the model draws.                                                 *)
(***************************************************************************)
ErrSyntax == "invalid syntax"

ErrRange == "value out of range"

DigitOf(c) == Index("0123456789abcdef", LowerCh(c)) - 1

\* the digits of s in the base, -1 when one of them is not a digit of the base
RECURSIVE Digits(_, _, _)
Digits(s, base, acc) ==
    IF s = "" THEN acc
    ELSE LET d == DigitOf(Ch(s, 1))
         IN  IF d < 0 \/ d >= base THEN -1
             ELSE Digits(From(s, 2), base, acc * base + d)

RECURSIVE Pow2(_)
Pow2(n) == IF n = 0 THEN 1 ELSE 2 * Pow2(n - 1)

\* strconv.ParseUint(s, 0, bits) before the range check: [err, n]
ParseUintBase0(s) ==
    IF s = "" THEN [err |-> ErrSyntax, n |-> 0]
    ELSE LET pfx == IF Ch(s, 1) = "0" /\ Len(s) >= 3 THEN LowerCh(Ch(s, 2)) ELSE ""
             base == CASE Ch(s, 1) # "0" -> 10
                       [] Ch(s, 1) = "0" /\ pfx = "b" -> 2
                       [] Ch(s, 1) = "0" /\ pfx = "o" -> 8
                       [] Ch(s, 1) = "0" /\ pfx = "x" -> 16
                       [] OTHER -> 8
             body == CASE Ch(s, 1) # "0" -> s
                       [] Ch(s, 1) = "0" /\ pfx \in {"b", "o", "x"} -> From(s, 3)
                       [] OTHER -> From(s, 2)
             n == Digits(body, base, 0)
         IN  IF n < 0 THEN [err |-> ErrSyntax, n |-> 0] ELSE [err |-> "", n |-> n]

\* a literal of the model never reaches 2^31, so only widths below 32 can overflow
ParseUint(s, bits) ==
    LET r == ParseUintBase0(s)
    IN  IF r.err # "" THEN r
        ELSE IF bits < 32 /\ r.n >= Pow2(bits) THEN [err |-> ErrRange, n |-> Pow2(bits) - 1]
        ELSE r

ParseInt(s, bits) ==
    IF s = "" THEN [err |-> ErrSyntax, n |-> 0]
    ELSE LET neg == Ch(s, 1) = "-"
             rest == IF Ch(s, 1) \in {"+", "-"} THEN From(s, 2) ELSE s
             r == ParseUintBase0(rest)
         IN  IF r.err # "" THEN r
             ELSE IF bits < 32 /\ ~neg /\ r.n >= Pow2(bits - 1)
                  THEN [err |-> ErrRange, n |-> Pow2(bits - 1) - 1]
             ELSE IF bits < 32 /\ neg /\ r.n > Pow2(bits - 1)
                  THEN [err |-> ErrRange, n |-> 0 - Pow2(bits - 1)]
             ELSE [err |-> "", n |-> IF neg THEN 0 - r.n ELSE r.n]

ParseBool(s) ==
    CASE s \in {"1", "t", "T", "TRUE", "true", "True"} -> [err |-> "", b |-> TRUE]
      [] s \in {"0", "f", "F", "FALSE", "false", "False"} -> [err |-> "", b |-> FALSE]
      [] OTHER -> [err |-> ErrSyntax, b |-> FALSE]

RFC3339 == "2006-01-02T15:04:05Z07:00"

IsLeap(y) == (y % 4 = 0 /\ y % 100 # 0) \/ y % 400 = 0

DaysIn(mo, y) ==
    CASE mo = 2 -> IF IsLeap(y) THEN 29 ELSE 28
      [] mo \in {4, 6, 9, 11} -> 30
      [] OTHER -> 31

\* a run of decimal digits as a number, -1 when it holds anything else
Num(s) == IF s = "" THEN -1 ELSE Digits(s, 10, 0)

\* time.Parse for the layouts of the schemas: RFC3339 (in UTC, "Z") and "2006-01-02"
ParseTime(layout, s) ==
    LET bad == [err |-> "parsing time: cannot parse", val |-> TimeV(1, 1, 1, 0, 0, 0)]
        y == Num(SubSeq(s, 1, 4))
        mo == Num(SubSeq(s, 6, 7))
        d == Num(SubSeq(s, 9, 10))
        dateOk == /\ Len(s) >= 10 /\ Ch(s, 5) = "-" /\ Ch(s, 8) = "-"
                  /\ y >= 0 /\ mo >= 1 /\ mo <= 12 /\ d >= 1 /\ d <= DaysIn(mo, y)
        h == Num(SubSeq(s, 12, 13))
        mi == Num(SubSeq(s, 15, 16))
        sec == Num(SubSeq(s, 18, 19))
        clockOk == /\ Len(s) = 20 /\ Ch(s, 11) = "T" /\ Ch(s, 14) = ":"
                   /\ Ch(s, 17) = ":" /\ Ch(s, 20) = "Z"
                   /\ h >= 0 /\ h < 24 /\ mi >= 0 /\ mi < 60 /\ sec >= 0 /\ sec < 60
    IN  CASE layout = RFC3339 ->
               IF dateOk /\ clockOk THEN [err |-> "", val |-> TimeV(y, mo, d, h, mi, sec)]
               ELSE bad
          [] layout = "2006-01-02" ->
               IF dateOk /\ Len(s) = 10 THEN [err |-> "", val |-> TimeV(y, mo, d, 0, 0, 0)]
               ELSE bad
          [] OTHER -> bad

\* the byte of a character ([]byte(value)), for the characters of the raw values
Ascii(c) ==
    CASE c \in {LowerLetters[i] : i \in 1..26} -> 96 + Index("abcdefghijklmnopqrstuvwxyz", c)
      [] c \in {UpperLetters[i] : i \in 1..26} -> 64 + Index("ABCDEFGHIJKLMNOPQRSTUVWXYZ", c)
      [] DigitOf(c) >= 0 /\ DigitOf(c) <= 9 -> 48 + DigitOf(c)
      [] c = " " -> 32
      [] c = "," -> 44
      [] c = "-" -> 45
      [] c = ":" -> 58
      [] c = "_" -> 95

RECURSIVE Bytes(_)
Bytes(s) == IF s = "" THEN <<>> ELSE <<UintV(Ascii(Ch(s, 1)))>> \o Bytes(From(s, 2))

(***************************************************************************)
(* The Setter of the documentation's example (cleanenv.go), the one type   *)
(* of the schemas that implements it: MyField, with a pointer receiver.    *)
(***************************************************************************)
SetValue(cur, value) ==
    IF value = "" THEN [err |-> "field value can't be empty", val |-> cur]
    ELSE [err |-> "", val |-> StrV("my field is: " \o value)]

(***************************************************************************)
(* parseValue, parseSlice, parseMap (common.go).  ParseValue(t, cur, ...)  *)
(* is [err, val]: the error returned and the value the field holds when    *)
(* parseValue returns, cur being the value it held before.                 *)
(***************************************************************************)
RECURSIVE ParseValue(_, _, _, _, _)
RECURSIVE ParseElems(_, _, _, _, _)
RECURSIVE ParsePairs(_, _, _, _, _)

\* what a case of parseValue leaves: on an error the field keeps its value
Kept(cur, r) == IF r.err # "" THEN [err |-> r.err, val |-> cur] ELSE [err |-> "", val |-> r.val]

\* the body of the loop of parseSlice once parseValue has returned r for the element
elemParsed(r, elemT, values, sep, layout, elems) ==
    IF r.err # "" THEN [err |-> r.err, val |-> SliceV(TRUE, <<>>)]
    ELSE ParseElems(elemT, Tail(values), sep, layout, Append(elems, r.val))

\* the loop of parseSlice over the split values, elems being the elements set so far
ParseElems(elemT, values, sep, layout, elems) ==
    IF values = <<>> THEN [err |-> "", val |-> SliceV(FALSE, elems)]
    ELSE elemParsed(ParseValue(elemT, Zero(elemT), Head(values), sep, layout),
                    elemT, values, sep, layout, elems)

parseSlice(valueType, value, sep, layout) ==
    IF TypeNamed(valueType.elem).kind = "uint8"
    THEN [err |-> "", val |-> SliceV(FALSE, Bytes(value))]
    ELSE IF Len(TrimSpace(value)) # 0
    THEN ParseElems(TypeNamed(valueType.elem), Split(value, sep), sep, layout, <<>>)
    ELSE [err |-> "", val |-> SliceV(FALSE, <<>>)]

\* reflect.Value.SetMapIndex
SetMapIndex(m, k, v) == [x \in (DOMAIN m) \cup {k} |-> IF x = k THEN v ELSE m[x]]

\* the body of the loop of parseMap once parseValue has returned v for the value
valueParsed(v, k, valueType, pairs, sep, layout, m) ==
    IF v.err # "" THEN [err |-> v.err, val |-> MapV(TRUE, <<>>)]
    ELSE ParsePairs(valueType, Tail(pairs), sep, layout, SetMapIndex(m, k.val, v.val))

\* the body of the loop of parseMap once parseValue has returned k for the key
keyParsed(k, kvPair, valueType, pairs, sep, layout, m) ==
    IF k.err # "" THEN [err |-> k.err, val |-> MapV(TRUE, <<>>)]
    ELSE valueParsed(ParseValue(TypeNamed(valueType.elem), Zero(TypeNamed(valueType.elem)),
                                kvPair[2], sep, layout),
                     k, valueType, pairs, sep, layout, m)

\* the body of the loop of parseMap for one pair, split at its first ":"
pairSplit(kvPair, valueType, pairs, sep, layout, m) ==
    IF Len(kvPair) # 2
    THEN [err |-> "invalid map item: " \o Head(pairs), val |-> MapV(TRUE, <<>>)]
    ELSE keyParsed(ParseValue(TypeNamed(valueType.key), Zero(TypeNamed(valueType.key)),
                              kvPair[1], sep, layout),
                   kvPair, valueType, pairs, sep, layout, m)

\* the loop of parseMap over the pairs, m being the map built so far
ParsePairs(valueType, pairs, sep, layout, m) ==
    IF pairs = <<>> THEN [err |-> "", val |-> MapV(FALSE, m)]
    ELSE pairSplit(SplitN2(Head(pairs), ":"), valueType, pairs, sep, layout, m)

parseMap(valueType, value, sep, layout) ==
    IF Len(TrimSpace(value)) # 0
    THEN ParsePairs(valueType, Split(value, sep), sep, layout, <<>>)
    ELSE [err |-> "", val |-> MapV(FALSE, <<>>)]

\* the case reflect.Struct of parseValue: only a time.Time is parsed; for any
\* other struct the case does nothing and parseValue returns nil
parseStruct(valueType, cur, value, layout) ==
    IF valueType.pkg = "time" /\ valueType.name = "Time"
    THEN Kept(cur, ParseTime(IF layout.ok THEN layout.v ELSE RFC3339, value))
    ELSE [err |-> "", val |-> cur]

parsedBool(r) == [err |-> r.err, val |-> BoolV(r.b)]

parsedInt(r) == [err |-> r.err, val |-> IntV(r.n)]

parsedUint(r) == [err |-> r.err, val |-> UintV(r.n)]

ParseValue(valueType, cur, value, sep, layout) ==
    IF valueType.setter THEN SetValue(cur, value)
    ELSE CASE valueType.kind = "string" -> [err |-> "", val |-> StrV(value)]
           [] valueType.kind = "bool" -> Kept(cur, parsedBool(ParseBool(value)))
           [] valueType.kind \in IntKinds ->
                Kept(cur, parsedInt(ParseInt(value, valueType.bits)))
           [] valueType.kind \in UintKinds ->
                Kept(cur, parsedUint(ParseUint(value, valueType.bits)))
           [] valueType.kind = "slice" -> Kept(cur, parseSlice(valueType, value, sep, layout))
           [] valueType.kind = "map" -> Kept(cur, parseMap(valueType, value, sep, layout))
           [] valueType.kind = "struct" -> parseStruct(valueType, cur, value, layout)
           [] OTHER ->
                [err |-> "unsupported type " \o valueType.pkg \o "." \o valueType.name,
                 val |-> cur]

\* toPrefix without the "_" it appends to an appname that does not end in one
toPrefixBare(name) == ToUpper(name)

toPrefix(name) ==
    IF name = "" THEN ""
    ELSE ToUpper(IF ~HasSuffix(name, "_") THEN name \o "_" ELSE name)

toFlagName(name, aliases) ==
    IF Len(aliases) > 0 THEN ReplaceAll(ToLower(aliases[1]), "_", "-")
    ELSE ToLower(name)

(***************************************************************************)
(* Bounds of the model.                                                    *)
(***************************************************************************)
\* at most this many environment variables are set in one run
MaxEnvVars == 2

(***************************************************************************)
(* The records (Go struct types with their tags) the binds are run on.     *)
(* A record type is a tree of struct nodes, node 1 its root; a node is the *)
(* sequence of its fields in declaration order.  A tag is the (value, ok)  *)
(* pair of reflect.StructTag.Lookup.  sub is the node of a field whose     *)
(* type is a struct other than time.Time, 0 for every other field.         *)
(***************************************************************************)
None == [ok |-> FALSE, v |-> ""]

Some(s) == [ok |-> TRUE, v |-> s]

Leaf(name, type, exported, env, def, req) ==
    [name |-> name, type |-> type, exported |-> exported, env |-> env, def |-> def,
     req |-> req, sep |-> None, layout |-> None, prefix |-> None, sub |-> 0]

Nested(name, exported, prefix, sub) ==
    [name |-> name, type |-> "struct", exported |-> exported, env |-> None, def |-> None,
     req |-> FALSE, sep |-> None, layout |-> None, prefix |-> prefix, sub |-> sub]

WithLayout(f, layout) == [f EXCEPT !.layout = layout]

WithSep(f, sep) == [f EXCEPT !.sep = sep]

Configs == {"Port", "Combined", "Database", "Required", "Overlap", "Hidden", "Kinds", "Scalar"}

\* whether the value passed as cfg is (a pointer to) a struct; Scalar is a *int
RootIsStruct(cfg) == cfg # "Scalar"

\* the record types by name, as a table
Schemas ==
    [cfg \in Configs |->
       CASE cfg = "Port" ->
              <<  <<Leaf("Port", "int", TRUE, Some("PORT"), Some("8080"), TRUE)>>  >>
         [] cfg = "Combined" ->
              <<  <<Leaf("Empty", "int", TRUE, None, None, FALSE),
                    Leaf("Default", "int", TRUE, Some("TEST0"), Some("1"), FALSE),
                    Leaf("Global", "int", TRUE, Some("TEST1"), Some("1"), FALSE),
                    Leaf("local", "int", FALSE, Some("TEST2"), Some("1"), FALSE)>>  >>
         [] cfg = "Database" ->
              <<  <<Leaf("A", "int", TRUE, Some("A"), None, FALSE),
                    Nested("DB", TRUE, Some("DB_"), 2),
                    Leaf("B", "int", TRUE, Some("B"), Some("7"), FALSE),
                    Nested("Cache", TRUE, None, 3)>>,
                  <<Leaf("Port", "int", TRUE, Some("PORT"), None, FALSE),
                    Nested("Pool", TRUE, Some("POOL_"), 4),
                    Leaf("Host", "string", TRUE, Some("HOST,ADDR"), None, FALSE)>>,
                  <<Leaf("Size", "int8", TRUE, Some("SIZE"), None, FALSE)>>,
                  <<Leaf("Max", "int", TRUE, Some("MAX"), Some("4"), FALSE)>>  >>
         [] cfg = "Required" ->
              <<  <<Leaf("First", "int", TRUE, Some("FIRST"), Some("1"), FALSE),
                    Leaf("Token", "string", TRUE, Some("TOKEN"), None, TRUE),
                    Leaf("Level", "int", TRUE, Some("LEVEL"), Some("high"), FALSE),
                    Leaf("Last", "int", TRUE, Some("LAST"), Some("3"), FALSE),
                    Leaf("draft", "int", FALSE, Some("DRAFT"), None, TRUE)>>  >>
         [] cfg = "Overlap" ->
              <<  <<Leaf("Addr", "string", TRUE, Some("HOST_NAME"), None, FALSE),
                    Leaf("Alias", "string", TRUE, Some("host-name"), None, FALSE),
                    Nested("Peer", TRUE, None, 2)>>,
                  <<Leaf("Addr", "string", TRUE, Some("HOST_NAME"), None, FALSE)>>  >>
         [] cfg = "Hidden" ->
              <<  <<Leaf("Name", "string", TRUE, Some("NAME"), Some("n"), FALSE),
                    Leaf("secret", "int", FALSE, Some("SECRET"), Some("1"), TRUE),
                    Nested("inner", FALSE, Some("IN_"), 2)>>,
                  <<Leaf("Depth", "int", TRUE, Some("DEPTH"), None, FALSE)>>  >>
         [] cfg = "Kinds" ->
              <<  <<Leaf("Items", "[]Inner", TRUE, Some("ITEMS"), None, FALSE),
                    Leaf("Ratio", "complex128", TRUE, Some("RATIO"), None, FALSE),
                    WithLayout(Leaf("At", "time.Time", TRUE, Some("AT"), None, FALSE),
                               Some("2006-01-02")),
                    Leaf("Since", "time.Time", TRUE, Some("SINCE"), None, FALSE),
                    WithSep(Leaf("Ports", "[]int", TRUE, Some("PORTS"), Some("80;443"), FALSE),
                            Some(";")),
                    Leaf("Limits", "map[string]int", TRUE, Some("LIMITS"), None, FALSE),
                    Leaf("Byname", "map[string]Inner", TRUE, Some("BYNAME"), None, FALSE),
                    Leaf("Label", "MyField", TRUE, Some("LABEL"), None, FALSE),
                    Leaf("Raw", "[]uint8", TRUE, Some("RAW"), None, FALSE),
                    Leaf("Debug", "bool", TRUE, Some("DEBUG"), None, FALSE),
                    Leaf("when", "time.Time", FALSE, Some("WHEN"), None, FALSE)>>  >>
         [] cfg = "Scalar" -> <<>>]

Schema(cfg) == Schemas[cfg]

\* the handles of the leaf fields of a record: <<node, index in the node>>
LeafFields ==
    [cfg \in Configs |->
       UNION {{<<n, i>> : i \in {j \in 1..Len(Schema(cfg)[n]) : Schema(cfg)[n][j].sub = 0}} :
              n \in 1..Len(Schema(cfg))}]

Fids(cfg) == LeafFields[cfg]

FieldOf(cfg, fid) == Schema(cfg)[fid[1]][fid[2]]

TypeOf(cfg, fid) == TypeNamed(FieldOf(cfg, fid).type)

\* a freshly allocated record: every field at the zero value of its type
ZeroRecord(cfg) == [fid \in Fids(cfg) |-> Zero(TypeOf(cfg, fid))]

(***************************************************************************)
(* The inputs of a run, each drawn from a small set per record type: the   *)
(* entry point, the application name, the process environment (at most     *)
(* MaxEnvVars of the listed settings), os.Args and the configuration file. *)
(***************************************************************************)
Entries(cfg) == IF cfg \in {"Port", "Scalar"} THEN {"ReadEnv"} ELSE {"ReadEnv", "ReadConfig"}

AppNames(cfg) ==
    CASE cfg = "Database" -> {"", "APP", "app_"}
      [] cfg = "Port" -> {"", "svc"}
      [] OTHER -> {""}

EnvSettings(cfg) ==
    CASE cfg = "Port" ->
           {<<"PORT", "9090">>, <<"PORT", "0">>, <<"PORT", "">>, <<"SVC_PORT", "0x50">>,
            <<"SVCPORT", "1">>, <<"port", "2">>}
      [] cfg = "Combined" ->
           {<<"TEST0", "5">>, <<"TEST1", "2">>, <<"TEST2", "3">>, <<"TEST1", "two">>,
            <<"EMPTY", "4">>, <<"TEST0", "0">>}
      [] cfg = "Database" ->
           {<<"DB_PORT", "5432">>, <<"APP_DB_PORT", "5433">>, <<"APPDB_PORT", "5434">>,
            <<"PORT", "5435">>, <<"APP_DB_ADDR", "db">>, <<"DB_POOL_MAX", "9">>,
            <<"SIZE", "300">>, <<"APP_B", "b">>}
      [] cfg = "Required" ->
           {<<"TOKEN", "t">>, <<"TOKEN", "">>, <<"LEVEL", "2">>, <<"LEVEL", "0">>,
            <<"FIRST", "one">>, <<"LAST", "+9">>, <<"DRAFT", "1">>}
      [] cfg = "Overlap" ->
           {<<"HOST_NAME", "h">>, <<"host-name", "g">>}
      [] cfg = "Hidden" ->
           {<<"NAME", "x">>, <<"SECRET", "2">>, <<"IN_DEPTH", "3">>}
      [] cfg = "Kinds" ->
           {<<"ITEMS", "a,b">>, <<"RATIO", "1">>, <<"AT", "2021-03-04">>, <<"AT", "x">>,
            <<"SINCE", "2021-02-28T10:00:59Z">>, <<"SINCE", "0001-01-01T00:00:00Z">>,
            <<"PORTS", "1;2">>, <<"PORTS", "1,2">>, <<"PORTS", " ">>,
            <<"LIMITS", "a:1,b:2,a:3">>, <<"LIMITS", "a1">>, <<"BYNAME", "k:v">>,
            <<"LABEL", "x">>, <<"LABEL", "">>, <<"RAW", "a,b">>, <<"DEBUG", "T">>,
            <<"WHEN", "2021-02-28T10:00:59Z">>}
      [] cfg = "Scalar" -> {}

\* an environment: a function from the names that are set to their values
Environments(cfg) ==
    {[k \in {p[1] : p \in ps} |-> (CHOOSE p \in ps : p[1] = k)[2]] :
       ps \in {qs \in SUBSET EnvSettings(cfg) :
                 /\ Cardinality(qs) <= MaxEnvVars
                 /\ \A p, q \in qs : p[1] = q[1] => p = q}}

\* os.Args: the program's name, then its arguments.  <<"-test1", "10">> is the
\* value TestFlag sets: it holds no program name, so "-test1" takes its place.
ArgLists(cfg) ==
    CASE cfg = "Combined" -> {<<"app">>, <<"-test1", "10">>, <<"app", "-test1", "10">>,
                              <<"app", "-h">>}
      [] cfg = "Overlap" -> {<<"app">>, <<"app", "--host-name=cli">>}
      [] cfg = "Kinds" -> {<<"app">>, <<"app", "--", "-items", "x">>}
      [] OTHER -> {<<"app">>}

\* the path given to ReadConfig ("" for none) and the values the file there holds
\* for fields of the record; there is no file at missing.yml
Paths(cfg) ==
    CASE cfg = "Combined" -> {"", "config.yml"}
      [] cfg = "Required" -> {"", "config.yml", "missing.yml"}
      [] OTHER -> {""}

FileValues(cfg, path) ==
    CASE cfg = "Combined" /\ path = "config.yml" -> (<<1, 2>> :> IntV(6)) @@ (<<1, 3>> :> IntV(8))
      [] cfg = "Required" /\ path = "config.yml" -> (<<1, 2>> :> StrV("f"))
      [] OTHER -> <<>>

(***************************************************************************)
(* readStructMetadata (common.go): one pass of its loop over cfgStack      *)
(* scans the fields of one struct.                                         *)
(***************************************************************************)
\* reflect.Value.CanSet for a field of a struct reached through a pointer
CanSet(f) == f.exported

\* the candidate names of a field: the env tag split, each under the prefix
envListOf(f, sPrefix) ==
    IF f.env.ok /\ Len(f.env.v) # 0
    THEN LET envList == Split(f.env.v, DefaultSeparator)
         IN  IF sPrefix # "" THEN [i \in 1..Len(envList) |-> sPrefix \o envList[i]]
             ELSE envList
    ELSE <<>>

structMeta(f, fid, sPrefix) ==
    [envList |-> envListOf(f, sPrefix),
     fieldName |-> f.name,
     fieldValue |-> fid,
     defValue |-> f.def,
     layout |-> IF f.type = "time.Time" THEN f.layout ELSE None,
     separator |-> IF f.sep.ok THEN f.sep.v ELSE DefaultSeparator,
     description |-> "",
     required |-> f.req]

\* the node appended to cfgStack for a nested struct field
cfgNode(f, sPrefix) == [val |-> f.sub, prefix |-> sPrefix \o f.prefix.v]

\* a nested struct put on the stack right behind the node being scanned, which
\* makes the traversal depth-first
pushNodeDepthFirst(stack, i, node) ==
    SubSeq(stack, 1, i) \o <<node>> \o SubSeq(stack, i + 1, Len(stack))

\* the append of a nested struct to the parsing stack (i: the loop's index)
pushNode(stack, i, node) == Append(stack, node)

\* The loop over the fields of node n from field idx on.  acc holds the stack, the
\* metas collected, and whether fld.Addr().Interface() panicked: it does on a
\* struct field obtained from an unexported field.
RECURSIVE scanFields(_, _, _, _, _, _)
scanFields(cfg, n, sPrefix, i, idx, acc) ==
    IF idx > Len(Schema(cfg)[n]) THEN acc
    ELSE LET f == Schema(cfg)[n][idx]
         IN  IF f.sub # 0
             THEN IF ~f.exported THEN [acc EXCEPT !.panic = TRUE]
                  ELSE scanFields(cfg, n, sPrefix, i, idx + 1,
                         [acc EXCEPT !.stack = pushNode(@, i, cfgNode(f, sPrefix))])
             ELSE IF ~CanSet(f) THEN scanFields(cfg, n, sPrefix, i, idx + 1, acc)
             ELSE scanFields(cfg, n, sPrefix, i, idx + 1,
                    [acc EXCEPT !.metas = Append(@, structMeta(f, <<n, idx>>, sPrefix))])

(***************************************************************************)
(* Package flag, as readFlagVars uses it.  FlagSetParse is FlagSet.Parse   *)
(* for a set whose flags (formal) are all string flags: [err, actual], the *)
(* error and the values set.                                               *)
(***************************************************************************)
RECURSIVE FlagSetParse(_, _, _)
FlagSetParse(formal, args, actual) ==
    IF args = <<>> THEN [err |-> "", actual |-> actual]
    ELSE LET s == args[1]
         IN  IF Len(s) < 2 \/ Ch(s, 1) # "-" THEN [err |-> "", actual |-> actual]
             ELSE LET minuses == IF Ch(s, 2) = "-" THEN 2 ELSE 1
                      full == From(s, minuses + 1)
                      eq == Index(From(full, 2), "=")
                      name == IF eq # 0 THEN SubSeq(full, 1, eq) ELSE full
                  IN  IF minuses = 2 /\ Len(s) = 2 THEN [err |-> "", actual |-> actual]
                      ELSE IF full = "" \/ Ch(full, 1) \in {"-", "="}
                      THEN [err |-> "bad flag syntax", actual |-> actual]
                      ELSE IF name \notin formal
                      THEN IF name \in {"help", "h"}
                           THEN [err |-> "flag: help requested", actual |-> actual]
                           ELSE [err |-> "flag provided but not defined", actual |-> actual]
                      ELSE IF eq # 0
                      THEN FlagSetParse(formal, Tail(args), (name :> From(full, eq + 2)) @@ actual)
                      ELSE IF Len(args) > 1
                      THEN FlagSetParse(formal, Tail(Tail(args)), (name :> args[2]) @@ actual)
                      ELSE [err |-> "flag needs an argument", actual |-> actual]

\* the flags defined on flag.CommandLine: this package defines none
CommandLineFlags == {}

\* flag.Parse() in readFlagVars: it parses os.Args[1:] with flag.CommandLine, not
\* with the set the flags were defined on.  [err, actual]: the error (on which
\* CommandLine, an ExitOnError set, exits) and the values set in the local flag set.
flagParse(formal, args) ==
    [err |-> FlagSetParse(CommandLineFlags, Tail(args), <<>>).err, actual |-> <<>>]

\* a result of parseValue as the result of a pass for one descriptor
Coercion(r) == [class |-> "coercion", err |-> r.err, val |-> r.val]

\* finalize for one descriptor without its check of required
finalizeOneNoRequired(meta, t, cur) ==
    IF isZero(cur) /\ meta.defValue.ok
    THEN Coercion(ParseValue(t, cur, meta.defValue.v, meta.separator, meta.layout))
    ELSE [class |-> "", err |-> "", val |-> cur]

\* finalize for one descriptor applying the default whether or not the field is zero
finalizeOneAlwaysDefault(meta, t, cur) ==
    IF meta.required /\ isZero(cur)
    THEN [class |-> "required",
          err |-> "field \"" \o meta.fieldName \o "\" is required but the value is not provided",
          val |-> cur]
    ELSE IF meta.defValue.ok
    THEN Coercion(ParseValue(t, cur, meta.defValue.v, meta.separator, meta.layout))
    ELSE [class |-> "", err |-> "", val |-> cur]

(***************************************************************************)
(* finalize for one descriptor: [class, err, val].                         *)
(***************************************************************************)
finalizeOne(meta, t, cur) ==
    IF meta.required /\ isZero(cur)
    THEN [class |-> "required",
          err |-> "field \"" \o meta.fieldName \o "\" is required but the value is not provided",
          val |-> cur]
    ELSE IF isZero(cur) /\ meta.defValue.ok
    THEN Coercion(ParseValue(t, cur, meta.defValue.v, meta.separator, meta.layout))
    ELSE [class |-> "", err |-> "", val |-> cur]

\* the lookup loop of readEnvVars for one descriptor: [tried, hit], the names looked
\* up in order and the index in envList of the one found (0: none)
lookupEnv(environ, prefix, envList) ==
    LET hits == {i \in 1..Len(envList) : (prefix \o envList[i]) \in DOMAIN environ}
        hit == IF hits = {} THEN 0 ELSE CHOOSE i \in hits : \A j \in hits : i <= j
        last == IF hit = 0 THEN Len(envList) ELSE hit
    IN  [tried |-> [i \in 1..last |-> prefix \o envList[i]], hit |-> hit]

\* parseFile(path, cfg): the file's values are decoded into the record ahead of
\* every other source; a file that cannot be read is an error
parseFile(cfg, path, rec) ==
    IF path = "missing.yml" THEN [err |-> "open missing.yml: no such file", rec |-> rec]
    ELSE [err |-> "", rec |-> FileValues(cfg, path) @@ rec]

(***************************************************************************)
(* The state of one call of ReadEnv or ReadConfig.                         *)
(***************************************************************************)
VARIABLES
    cfgType,    \* the record type of cfg
    entry,      \* the function called: "ReadEnv" or "ReadConfig"
    appname,    \* its appname argument
    path,       \* ReadConfig's path argument
    environ,    \* the process environment
    osArgs,     \* os.Args
    record,     \* the record cfg points to: the value of each leaf field
    pc,         \* the function the call is in, "done" once it has ended
    cfgStack,   \* readStructMetadata: the parsing stack,
    i,          \*   its loop index
    metas,      \*   and the descriptors collected (meta / metaInfo afterwards)
    idx,        \* the index of the loop over metaInfo in the pass running
    names,      \* readFlagVars: the flag names defined,
    values,     \*   fieldName -> the name of the flag whose string it points to,
    flagVals,   \*   and the strings of the flags of flagSet
    result,     \* how the call ended
    lookups,    \* history: the names given to os.LookupEnv, in order
    passStart,  \* history: the record as it was when the pass running began
    supplied    \* history: the fields a file, the environment or a flag gave a value

inputs == <<cfgType, entry, appname, path, environ, osArgs>>

vars == <<cfgType, entry, appname, path, environ, osArgs, record, pc, cfgStack, i, metas,
          idx, names, values, flagVals, result, lookups, passStart, supplied>>

Running == [kind |-> "running", class |-> "", pass |-> "", at |-> 0, msg |-> ""]

Returned(err, class, pass, at) ==
    [kind |-> IF err = "" THEN "ok" ELSE "error", class |-> class, pass |-> pass,
     at |-> at, msg |-> err]

Panicked(msg, pass, at) == [kind |-> "panic", class |-> "", pass |-> pass, at |-> at, msg |-> msg]

Exited(msg, pass) == [kind |-> "exit", class |-> "", pass |-> pass, at |-> 0, msg |-> msg]

Init ==
    /\ cfgType \in Configs
    /\ entry \in Entries(cfgType)
    /\ appname \in AppNames(cfgType)
    /\ path \in (IF entry = "ReadConfig" THEN Paths(cfgType) ELSE {""})
    /\ environ \in Environments(cfgType)
    /\ osArgs \in (IF entry = "ReadConfig" THEN ArgLists(cfgType) ELSE {<<"app">>})
    /\ record = ZeroRecord(cfgType)
    /\ pc = "start"
    /\ cfgStack = <<>>
    /\ i = 1
    /\ metas = <<>>
    /\ idx = 1
    /\ names = {}
    /\ values = <<>>
    /\ flagVals = <<>>
    /\ result = Running
    /\ lookups = <<>>
    /\ passStart = ZeroRecord(cfgType)
    /\ supplied = {}

\* ReadEnv up to its call of readStructMetadata
ReadEnv ==
    /\ pc = "start" /\ entry = "ReadEnv"
    /\ pc' = "readStructMetadata"
    /\ cfgStack' = <<[val |-> 1, prefix |-> ""]>>
    /\ UNCHANGED <<inputs, record, i, metas, idx, names, values, flagVals, result, lookups,
                   passStart, supplied>>

\* ReadConfig up to its call of readStructMetadata: the file, if a path is given
ReadConfig ==
    /\ pc = "start" /\ entry = "ReadConfig"
    /\ LET r == IF path # "" THEN parseFile(cfgType, path, record)
                ELSE [err |-> "", rec |-> record]
       IN  IF r.err # ""
           THEN /\ result' = Returned(r.err, "file", "parseFile", 0)
                /\ pc' = "done"
                /\ UNCHANGED <<record, cfgStack, supplied>>
           ELSE /\ record' = r.rec
                /\ supplied' = (IF path # "" THEN DOMAIN FileValues(cfgType, path) ELSE {})
                /\ cfgStack' = <<[val |-> 1, prefix |-> ""]>>
                /\ pc' = "readStructMetadata"
                /\ UNCHANGED result
    /\ UNCHANGED <<inputs, i, metas, idx, names, values, flagVals, lookups, passStart>>

\* one pass of the loop of readStructMetadata, or its return
readStructMetadata ==
    /\ pc = "readStructMetadata"
    /\ IF i > Len(cfgStack)
       THEN /\ pc' = "readEnvVars"
            /\ idx' = 1
            /\ passStart' = record
            /\ UNCHANGED <<cfgStack, i, metas, result>>
       ELSE IF ~RootIsStruct(cfgType)
       THEN /\ result' = Returned("wrong type int", "schema", pc, 0)
            /\ pc' = "done"
            /\ UNCHANGED <<cfgStack, i, metas, idx, passStart>>
       ELSE LET r == scanFields(cfgType, cfgStack[i].val, cfgStack[i].prefix, i, 1,
                                [stack |-> cfgStack, metas |-> metas, panic |-> FALSE])
            IN  IF r.panic
                THEN /\ result' = Panicked("reflect.Value.Interface: cannot return value obtained from unexported field or method", pc, 0)
                     /\ pc' = "done"
                     /\ UNCHANGED <<cfgStack, i, metas, idx, passStart>>
                ELSE /\ cfgStack' = r.stack
                     /\ metas' = r.metas
                     /\ i' = i + 1
                     /\ UNCHANGED <<pc, idx, passStart, result>>
    /\ UNCHANGED <<inputs, record, names, values, flagVals, lookups, supplied>>

\* the call of parseValue for the field of meta, in any of the passes
parseField(meta, value) ==
    Coercion(ParseValue(TypeOf(cfgType, meta.fieldValue), record[meta.fieldValue], value,
                        meta.separator, meta.layout))

\* the end of the loop body of a pass that undoes the pass when it fails
loopBodyRollback(meta, r) ==
    /\ IF r.err # ""
       THEN /\ record' = passStart
            /\ result' = Returned(r.err, r.class, pc, idx)
            /\ pc' = "done"
            /\ UNCHANGED idx
       ELSE /\ record' = [record EXCEPT ![meta.fieldValue] = r.val]
            /\ idx' = idx + 1
            /\ UNCHANGED <<pc, result>>

\* the end of the loop body of a pass, r being what it did for metas[idx]: the
\* field is as r left it, and an error is returned at once
loopBody(meta, r) ==
    /\ record' = [record EXCEPT ![meta.fieldValue] = r.val]
    /\ IF r.err # ""
       THEN /\ result' = Returned(r.err, r.class, pc, idx)
            /\ pc' = "done"
            /\ UNCHANGED idx
       ELSE /\ idx' = idx + 1
            /\ UNCHANGED <<pc, result>>

\* one pass of the loop of readEnvVars, or its return to ReadEnv / ReadConfig
readEnvVars ==
    /\ pc = "readEnvVars"
    /\ IF idx > Len(metas)
       THEN /\ pc' = (IF entry = "ReadConfig" THEN "flagDefine" ELSE "finalize")
            /\ idx' = 1
            /\ passStart' = record
            /\ UNCHANGED <<record, result, lookups, supplied>>
       ELSE LET meta == metas[idx]
                l == lookupEnv(environ, toPrefix(appname), meta.envList)
            IN  /\ lookups' = lookups \o l.tried
                /\ IF l.hit = 0
                   THEN /\ idx' = idx + 1
                        /\ UNCHANGED <<record, pc, result, supplied>>
                   ELSE /\ loopBody(meta, parseField(meta, environ[l.tried[l.hit]]))
                        /\ supplied' = supplied \cup {meta.fieldValue}
                /\ UNCHANGED passStart
    /\ UNCHANGED <<inputs, cfgStack, i, metas, names, values, flagVals>>

\* readFlagVars, first loop: one flag of flagSet is defined, or none for a name taken
flagDefine ==
    /\ pc = "flagDefine"
    /\ IF idx > Len(metas)
       THEN /\ pc' = "flagParse"
            /\ UNCHANGED <<idx, names, values, flagVals>>
       ELSE LET meta == metas[idx]
                flagName == toFlagName(meta.fieldName, meta.envList)
            IN  /\ idx' = idx + 1
                /\ IF flagName \in names
                   THEN UNCHANGED <<names, values, flagVals>>
                   ELSE /\ names' = names \cup {flagName}
                        /\ values' = (meta.fieldName :> flagName) @@ values
                        /\ flagVals' = (flagName :> "") @@ flagVals
                /\ UNCHANGED pc
    /\ UNCHANGED <<inputs, record, cfgStack, i, metas, result, lookups, passStart, supplied>>

\* readFlagVars: flag.Parse()
flagParseArgs ==
    /\ pc = "flagParse"
    /\ LET r == flagParse(names, osArgs)
       IN  IF r.err # ""
           THEN /\ result' = Exited(r.err, pc)
                /\ pc' = "done"
                /\ UNCHANGED <<idx, flagVals>>
           ELSE /\ flagVals' = r.actual @@ flagVals
                /\ pc' = "flagApply"
                /\ idx' = 1
                /\ UNCHANGED result
    /\ UNCHANGED <<inputs, record, cfgStack, i, metas, names, values, lookups, passStart,
                   supplied>>

\* readFlagVars, second loop: *values[meta.fieldName] is parsed into the field
flagApply ==
    /\ pc = "flagApply"
    /\ IF idx > Len(metas)
       THEN /\ pc' = "finalize"
            /\ idx' = 1
            /\ passStart' = record
            /\ UNCHANGED <<record, result, supplied>>
       ELSE LET meta == metas[idx]
            IN  /\ IF meta.fieldName \notin DOMAIN values
                   THEN /\ result' = Panicked("invalid memory address or nil pointer dereference", pc, idx)
                        /\ pc' = "done"
                        /\ UNCHANGED <<idx, record, supplied>>
                   ELSE IF flagVals[values[meta.fieldName]] = ""
                   THEN /\ idx' = idx + 1
                        /\ UNCHANGED <<pc, record, result, supplied>>
                   ELSE /\ loopBody(meta, parseField(meta, flagVals[values[meta.fieldName]]))
                        /\ supplied' = supplied \cup {meta.fieldValue}
                /\ UNCHANGED passStart
    /\ UNCHANGED <<inputs, cfgStack, i, metas, names, values, flagVals, lookups>>

\* one pass of the loop of finalize, or its return, which the entry point returns
finalize ==
    /\ pc = "finalize"
    /\ IF idx > Len(metas)
       THEN /\ result' = Returned("", "", pc, 0)
            /\ pc' = "done"
            /\ UNCHANGED <<idx, record>>
       ELSE loopBody(metas[idx],
                     finalizeOne(metas[idx], TypeOf(cfgType, metas[idx].fieldValue),
                                 record[metas[idx].fieldValue]))
    /\ UNCHANGED <<inputs, cfgStack, i, metas, names, values, flagVals, lookups, passStart,
                   supplied>>

Next ==
    \/ ReadEnv
    \/ ReadConfig
    \/ readStructMetadata
    \/ readEnvVars
    \/ flagDefine
    \/ flagParseArgs
    \/ flagApply
    \/ finalize

Spec == Init /\ [][Next]_vars

\* The loop of readStructMetadata is sequential code: while the call is in it, it
\* makes its next pass.
FairSpec == Spec /\ WF_vars(readStructMetadata)

TypeOK ==
    /\ pc \in {"start", "readStructMetadata", "readEnvVars", "flagDefine", "flagParse",
               "flagApply", "finalize", "done"}
    /\ result.kind \in {"running", "ok", "error", "panic", "exit"}
    /\ (pc = "done") = (result.kind # "running")
    /\ DOMAIN record = Fids(cfgType)

(***************************************************************************)
(* Vocabulary of the properties.                                           *)
(***************************************************************************)
Done == pc = "done"

\* readStructMetadata has returned its descriptors
Introspected ==
    \/ pc \in {"readEnvVars", "flagDefine", "flagParse", "flagApply", "finalize"}
    \/ Done /\ result.pass \in {"readEnvVars", "flagParse", "flagApply", "finalize"}

\* readEnvVars has returned nil
EnvPassOver ==
    \/ pc \in {"flagDefine", "flagParse", "flagApply", "finalize"}
    \/ Done /\ result.pass \in {"flagParse", "flagApply", "finalize"}

\* the call has returned nil
ReturnedNil == Done /\ result.kind = "ok"

\* the descriptor a pass is at
AtDescriptor(pass) == pc = pass /\ idx <= Len(metas)

\* every field of every node of the record, nested struct fields included
AllFields(cfg) ==
    UNION {{<<n, j>> : j \in 1..Len(Schema(cfg)[n])} : n \in 1..Len(Schema(cfg))}

\* the prefix accumulated on the path from the root to node n, read off the
\* declarations: the env-prefix tags of the fields the path goes through
RECURSIVE PathPrefix(_, _)
PathPrefix(cfg, n) ==
    IF n = 1 THEN ""
    ELSE LET up == CHOOSE pj \in AllFields(cfg) : Schema(cfg)[pj[1]][pj[2]].sub = n
         IN  PathPrefix(cfg, up[1]) \o Schema(cfg)[up[1]][up[2]].prefix.v

\* the candidate keys declared on a leaf field, without any prefix
DeclaredKeys(cfg, fid) ==
    IF FieldOf(cfg, fid).env.v = "" THEN {}
    ELSE {Split(FieldOf(cfg, fid).env.v, ",")[j] :
            j \in 1..Len(Split(FieldOf(cfg, fid).env.v, ","))}

(***************************************************************************)
(* C1.  For the record whose field Port (int) has the key PORT, the        *)
(* default "8080" and the required flag, and with no environment variable  *)
(* PORT set, ReadEnv returns no error and leaves Port = 8080: a required   *)
(* field that is still zero after all sources but has a default literal is *)
(* bound to the coerced default.                                           *)
(***************************************************************************)
C1_RequiredFieldTakesDefault ==
    (Done /\ cfgType = "Port" /\ entry = "ReadEnv" /\ appname = ""
          /\ "PORT" \notin DOMAIN environ)
        => (result.kind = "ok" /\ record[<<1, 1>>] = IntV(8080))

(***************************************************************************)
(* C2.  For every descriptor marked required that has no default literal:  *)
(* when finalize comes to it, all sources having been applied, and the     *)
(* field holds the zero value of its type, the call returns the            *)
(* required-value-missing error for that field; when the field holds a     *)
(* non-zero value the required check does not fail for it.  So a call that *)
(* returns nil leaves no such field at zero.                               *)
(***************************************************************************)
RequiredNoDefault(meta) == meta.required /\ ~meta.defValue.ok

HoldsZero(fid) == record[fid] = Zero(TypeOf(cfgType, fid))

C2_RequiredStep ==
    (AtDescriptor("finalize") /\ RequiredNoDefault(metas[idx]))
        => IF HoldsZero(metas[idx].fieldValue)
           THEN /\ pc' = "done"
                /\ result'.kind = "error" /\ result'.class = "required"
                /\ result'.at = idx
                /\ result'.msg = "field \"" \o metas[idx].fieldName
                                   \o "\" is required but the value is not provided"
           ELSE /\ result'.class # "required"
                /\ idx' = idx + 1

C2_RequiredEnforced ==
    /\ [][C2_RequiredStep]_vars
    /\ [](ReturnedNil =>
            \A j \in 1..Len(metas) :
               RequiredNoDefault(metas[j]) => ~HoldsZero(metas[j].fieldValue))
    /\ []((Done /\ result.class = "required") =>
            /\ metas[result.at].required
            /\ HoldsZero(metas[result.at].fieldValue))

C2_Witness ==
    /\ Done /\ cfgType = "Required" /\ entry = "ReadConfig"
    /\ result.kind = "error" /\ result.class = "required" /\ result.pass = "finalize"
    /\ metas[result.at].fieldName = "Token" /\ RequiredNoDefault(metas[result.at])
    /\ record[<<1, 2>>] = StrV("")
    /\ <<1, 2>> \in supplied

(***************************************************************************)
(* C3.  After a finalize that returns nil, every non-required field that   *)
(* has a default literal and was supplied by no external source (file,     *)
(* environment, flag) holds the coerced default; and finalize applies the  *)
(* default only to a field that is at its zero value when it reaches it: a *)
(* field holding a non-zero value is never overwritten by its default.     *)
(***************************************************************************)
CoercedDefault(meta) ==
    ParseValue(TypeOf(cfgType, meta.fieldValue), Zero(TypeOf(cfgType, meta.fieldValue)),
               meta.defValue.v, meta.separator, meta.layout).val

C3_DefaultsHold ==
    ReturnedNil =>
       /\ \A j \in 1..Len(metas) :
            (~metas[j].required /\ metas[j].defValue.ok
               /\ metas[j].fieldValue \notin supplied)
                 => record[metas[j].fieldValue] = CoercedDefault(metas[j])
       /\ (cfgType = "Combined" /\ <<1, 2>> \notin supplied) => record[<<1, 2>>] = IntV(1)
       /\ (cfgType = "Kinds" /\ <<1, 5>> \notin supplied)
            => record[<<1, 5>>] = SliceV(FALSE, <<IntV(80), IntV(443)>>)

C3_FinalizeStep ==
    AtDescriptor("finalize") =>
       /\ \A fid \in Fids(cfgType) :
            (fid # metas[idx].fieldValue \/ ~isZero(record[fid])) => record'[fid] = record[fid]

C3_DefaultOnlyWhenZero ==
    /\ []C3_DefaultsHold
    /\ [][C3_FinalizeStep]_vars
    /\ []((Done /\ result.pass = "finalize") =>
            \A fid \in Fids(cfgType) : ~isZero(passStart[fid]) => record[fid] = passStart[fid])

C3_Witness ==
    /\ ReturnedNil /\ cfgType = "Combined"
    /\ <<1, 2>> \notin supplied /\ record[<<1, 2>>] = IntV(1)
    /\ <<1, 3>> \in supplied /\ record[<<1, 3>>] = IntV(2)

(***************************************************************************)
(* C4.  Sources are applied in the order environment, flags, finalize,     *)
(* later ones overriding earlier ones: with the environment variable of a  *)
(* field set (TEST1=2) and a non-empty flag value given for the same field *)
(* on the command line (-test1 10), ReadConfig ends with the field holding *)
(* the coerced flag value 10, not the environment's value nor the default. *)
(***************************************************************************)
C4_FlagOverridesEnv ==
    (Done /\ cfgType = "Combined" /\ entry = "ReadConfig" /\ path = ""
          /\ "TEST1" \in DOMAIN environ /\ environ["TEST1"] = "2"
          /\ osArgs \in {<<"-test1", "10">>, <<"app", "-test1", "10">>})
        => (result.kind = "ok" /\ record[<<1, 3>>] = IntV(10))

(***************************************************************************)
(* C5.  For the nested group with prefix "DB_" whose field has the key     *)
(* "PORT", the environment name looked up is "DB_PORT" when the appname is *)
(* empty and "APPDB_PORT" when the appname is "APP".                       *)
(***************************************************************************)
C5_KeyWithoutSeparator ==
    (EnvPassOver /\ cfgType = "Database") =>
       /\ appname = "" => \E j \in 1..Len(lookups) : lookups[j] = "DB_PORT"
       /\ appname = "APP" => \E j \in 1..Len(lookups) : lookups[j] = "APPDB_PORT"

(***************************************************************************)
(* C5, amended.  The name looked up is "DB_PORT" when the appname is empty *)
(* and "APP_DB_PORT" when it is "APP"; in general every name looked up is  *)
(* the normalized appname (upper case, ending in "_", empty if the appname *)
(* is), then the prefixes accumulated along the nesting path, then a       *)
(* candidate key of the field, and every descriptor's names are looked up  *)
(* in order up to the first that is set.                                   *)
(***************************************************************************)
\* the names under which a leaf field may be looked up
NormalizedApp(app) ==
    IF app = "" THEN ""
    ELSE ToUpper(app) \o (IF Ch(app, Len(app)) = "_" THEN "" ELSE "_")

Names ==
    [cfg \in Configs |->
       [app \in UNION {AppNames(c) : c \in Configs} |->
          [fid \in Fids(cfg) |->
             {NormalizedApp(app) \o PathPrefix(cfg, fid[1]) \o key :
                key \in DeclaredKeys(cfg, fid)}]]]

NamesOf(cfg, app, fid) == Names[cfg][app][fid]

C5_LookedUpKey ==
    /\ \A j \in 1..Len(lookups) :
         \E fid \in Fids(cfgType) : lookups[j] \in NamesOf(cfgType, appname, fid)
    /\ (EnvPassOver /\ cfgType = "Database") =>
         /\ appname = "" =>
              /\ \E j \in 1..Len(lookups) : lookups[j] = "DB_PORT"
              /\ ("DB_PORT" \in DOMAIN environ) => record[<<2, 1>>] = IntV(5432)
         /\ appname \in {"APP", "app_"} =>
              /\ \E j \in 1..Len(lookups) : lookups[j] = "APP_DB_PORT"
              /\ \A j \in 1..Len(lookups) : lookups[j] # "APPDB_PORT"
              /\ ("APP_DB_PORT" \in DOMAIN environ) => record[<<2, 1>>] = IntV(5433)
              /\ ("APP_DB_PORT" \notin DOMAIN environ) => record[<<2, 1>>] = IntV(0)
         /\ \A fid \in Fids(cfgType) :
              (FieldOf(cfgType, fid).exported /\ NamesOf(cfgType, appname, fid) # {}) =>
                 \E j \in 1..Len(lookups) : lookups[j] \in NamesOf(cfgType, appname, fid)

C5_Witness ==
    /\ EnvPassOver /\ cfgType = "Database" /\ appname = "APP"
    /\ "APP_DB_PORT" \in DOMAIN environ /\ "APPDB_PORT" \in DOMAIN environ
    /\ record[<<2, 1>>] = IntV(5433)

(***************************************************************************)
(* C6.  Every field that cannot be set (unexported), a leaf or a nested    *)
(* record, is skipped by readStructMetadata without failure: it yields no  *)
(* descriptor, and its value is unchanged by any bind whatever the         *)
(* environment, the flags and its default and required tags say.           *)
(***************************************************************************)
C6_UnexportedSkipped ==
    /\ ~(result.kind = "panic" /\ result.pass = "readStructMetadata")
    /\ \A j \in 1..Len(metas) : FieldOf(cfgType, metas[j].fieldValue).exported
    /\ \A fid \in Fids(cfgType) :
         ~FieldOf(cfgType, fid).exported => record[fid] = Zero(TypeOf(cfgType, fid))
    /\ (Done /\ cfgType = "Hidden") => result.kind \in {"ok", "error"}

(***************************************************************************)
(* C7.  In readFlagVars, when descriptors normalize to the same flag name, *)
(* only the first is registered and every later one is dropped silently:   *)
(* the flag pass completes without error or crash, and the field of a      *)
(* dropped descriptor is not modified by it.                               *)
(***************************************************************************)
\* descriptor j was dropped in the first loop: an earlier one has its flag name
Dropped(j) ==
    \E h \in 1..(j - 1) :
       toFlagName(metas[h].fieldName, metas[h].envList)
         = toFlagName(metas[j].fieldName, metas[j].envList)

C7_CollisionDropped ==
    /\ (pc = "flagApply" \/ (Done /\ result.pass = "flagApply")) =>
         /\ Cardinality(names) = Cardinality({j \in 1..Len(metas) : ~Dropped(j)})
         /\ \A j \in 1..Len(metas) :
              Dropped(j) => record[metas[j].fieldValue] = passStart[metas[j].fieldValue]
    /\ (Done /\ result.pass = "flagApply") => result.kind \notin {"panic", "error"}

(***************************************************************************)
(* C8.  When the coercion of a raw value fails for a descriptor in the     *)
(* environment pass, the flag pass or finalize, the pass returns that      *)
(* error at once and the call returns it: no later descriptor of the pass  *)
(* is looked up or coerced and no later pass runs; the fields mutated      *)
(* before keep their mutated values (no rollback), and the fields of the   *)
(* later descriptors keep the values they had before the pass.             *)
(***************************************************************************)
C8_FailingStep ==
    (result.kind = "running" /\ result'.kind = "error" /\ result'.class = "coercion") =>
       /\ pc \in {"readEnvVars", "flagApply", "finalize"}
       /\ pc' = "done"
       /\ result'.pass = pc /\ result'.at = idx /\ result'.msg # ""
       /\ \A j \in 1..Len(metas) :
            /\ j < idx => record'[metas[j].fieldValue] = record[metas[j].fieldValue]
            /\ j > idx => record'[metas[j].fieldValue] = passStart[metas[j].fieldValue]
       /\ \A h \in (Len(lookups) + 1)..Len(lookups') :
            \E k \in 1..Len(metas[idx].envList) :
               lookups'[h] = toPrefix(appname) \o metas[idx].envList[k]
       /\ pc # "readEnvVars" => lookups' = lookups

C8_ErrorAborts ==
    /\ [][C8_FailingStep]_vars
    /\ [][pc # "done"]_vars
    /\ []((Done /\ result.kind = "error" /\ result.class = "coercion") =>
            \A j \in (result.at + 1)..Len(metas) :
               record[metas[j].fieldValue] = passStart[metas[j].fieldValue])

C8_Witness ==
    /\ Done /\ cfgType = "Required" /\ result.kind = "error" /\ result.class = "coercion"
    /\ result.pass = "finalize" /\ result.at = 3
    /\ passStart[<<1, 1>>] = IntV(0) /\ record[<<1, 1>>] = IntV(1)
    /\ record[<<1, 4>>] = IntV(0)

(***************************************************************************)
(* C9.  parseValue on a target whose kind is a struct other than time.Time *)
(* that does not implement Setter (reached as the element of a slice or as *)
(* the key or value of a map), or on any other unsupported kind, returns a *)
(* coercion error naming the type: it never returns nil leaving the target *)
(* unmodified.  So a bind that gives such a field a non-blank raw value    *)
(* returns that error.                                                     *)
(***************************************************************************)
C9_UnsupportedTargetFails ==
    \A j \in 1..Len(metas) :
       (/\ cfgType = "Kinds"
        /\ metas[j].fieldName \in {"Items", "Byname", "Ratio"}
        /\ metas[j].fieldValue \in supplied)
         => /\ Done /\ result.kind = "error" /\ result.class = "coercion"
            /\ result.at = j
            /\ HasPrefix(result.msg, "unsupported type ")

(***************************************************************************)
(* C10.  readStructMetadata returns the descriptors breadth-first over the *)
(* nesting levels: the settable leaf fields of the root in declaration     *)
(* order, then those of each nested record in the order the records were   *)
(* pushed on the stack, every nested record being processed exactly once   *)
(* with the prefix accumulated along its path; its loop terminates, and it *)
(* does not modify the values of the record's fields.                      *)
(***************************************************************************)
\* the nested records of the nodes of a level, in order, each under its prefix
RECURSIVE NextLevel(_, _)
NextLevel(cfg, level) ==
    IF level = <<>> THEN <<>>
    ELSE LET n == Head(level)
             subs == [j \in 1..Len(Schema(cfg)[n]) |-> Schema(cfg)[n][j].sub]
         IN  SelectSeq(subs, LAMBDA x : x # 0) \o NextLevel(cfg, Tail(level))

\* the nodes of the record level by level
RECURSIVE BreadthFirst(_, _)
BreadthFirst(cfg, level) ==
    IF level = <<>> THEN <<>> ELSE level \o BreadthFirst(cfg, NextLevel(cfg, level))

\* the settable leaf fields of the nodes, in the nodes' order and then declaration order
RECURSIVE LeavesOf(_, _)
LeavesOf(cfg, nodes) ==
    IF nodes = <<>> THEN <<>>
    ELSE LET n == Head(nodes)
             all == [j \in 1..Len(Schema(cfg)[n]) |-> <<n, j>>]
         IN  SelectSeq(all, LAMBDA fid : FieldOf(cfg, fid).sub = 0 /\ FieldOf(cfg, fid).exported)
               \o LeavesOf(cfg, Tail(nodes))

C10_Returned ==
    Introspected =>
       LET order == BreadthFirst(cfgType, <<1>>)
           leaves == LeavesOf(cfgType, order)
       IN  /\ [j \in 1..Len(cfgStack) |-> cfgStack[j].val] = order
           /\ \A j \in 1..Len(cfgStack) :
                cfgStack[j].prefix = PathPrefix(cfgType, cfgStack[j].val)
           /\ i = Len(cfgStack) + 1
           /\ [j \in 1..Len(metas) |-> metas[j].fieldValue] = leaves
           /\ \A j \in 1..Len(metas) :
                {metas[j].envList[k] : k \in 1..Len(metas[j].envList)}
                  = {PathPrefix(cfgType, leaves[j][1]) \o key :
                       key \in DeclaredKeys(cfgType, leaves[j])}

C10_BreadthFirst ==
    /\ []C10_Returned
    /\ [][pc = "readStructMetadata" => record' = record]_vars
    /\ (pc = "readStructMetadata") ~> (pc # "readStructMetadata")

C10_Witness ==
    /\ Introspected /\ cfgType = "Database"
    /\ Len(cfgStack) = 4 /\ cfgStack[4] = [val |-> 4, prefix |-> "DB_POOL_"]
    /\ Len(metas) = 6
    /\ metas[4].envList = <<"DB_HOST", "DB_ADDR">>
    /\ metas[5].fieldName = "Size" /\ metas[6].envList = <<"DB_POOL_MAX">>

=============================================================================
